---- MODULE Spec2Model ----
(***************************************************************************)
(* The model manager of the logo generator backend                         *)
(* (src/app/model_manager.py) and the startup/shutdown script that drives  *)
(* it (src/app/main.py, lifespan).                                         *)
(*                                                                         *)
(* Two kinds of threads take steps:                                        *)
(*   - the asyncio event loop, which runs one task at a time and switches  *)
(*     tasks only where a coroutine suspends;                              *)
(*   - the single worker thread of ModelManager.executor                   *)
(*     (ThreadPoolExecutor(max_workers=1)), which runs the blocking calls  *)
(*     handed over by loop.run_in_executor.                                *)
(*                                                                         *)
(* Suspension points.  `await loop.run_in_executor(...)` submits the work  *)
(* item synchronously and then always suspends until the future is done.   *)
(* `async with self.semaphore` suspends only when no permit is free        *)
(* (asyncio.Semaphore.acquire returns without yielding otherwise).         *)
(* `async with cls._lock` in get_instance is modelled with a task switch   *)
(* allowed before the lock is taken and while it is held: this is a        *)
(* superset of the interleavings asyncio produces, so that the             *)
(* double-checked locking is exercised by every schedule.                  *)
(* ModelManager.cleanup is synchronous: executor.shutdown(wait=True)       *)
(* blocks the event-loop thread until the worker has drained its queue.    *)
(***************************************************************************)
EXTENDS Integers, Sequences, FiniteSets, TLC

\* ---------------------------------------------------------------- bounds
NTasks == 4          \* event-loop tasks: the lifespan task and the request tasks
NCallers == 2        \* tasks that call the manager at will when it is used on its own
MaxJobs == 2         \* largest max_concurrent_jobs value passed to get_instance

Tasks == 1..NTasks
Callers == 1..NCallers
JobsArg == 1..MaxJobs

\* ------------------------------------------------------------- constants
DefaultMaxJobs == 2  \* get_instance(cls, max_concurrent_jobs: int = 2)

VARIABLES
    gpu_available,   \* torch.cuda.is_available() or torch.backends.mps.is_available()
    instance,        \* ModelManager._instance: 0 is None, n > 0 the n-th object constructed
    constructed,     \* how many ModelManager objects have been constructed
    lock,            \* ModelManager._lock: 0 is free, else the task that holds it
    capacity,        \* the value the semaphore was created with (0: semaphore is None)
    semaphore,       \* self.semaphore._value: the number of free permits
    pipeline,        \* self.pipeline is not None (a handle is stored)
    model_loaded,    \* self.model_loaded
    queue,           \* executor: work items submitted and not yet started
    running,         \* executor: the work items its worker threads are executing
    shutdown,        \* executor: shutdown() has been called
    pc,              \* per task: where its coroutine is suspended ("idle": not in a call)
    arg,             \* per task: max_concurrent_jobs of the get_instance call in progress
    fut,             \* per task: the future of the work item its call in progress submitted
    last,            \* the call that ended most recently: the task, the operation, how it
                     \* ended ("ok" or the error raised), the state of its future, and
                     \* the instance it returned (get_instance)
    phase            \* position of lifespan() in its script ("free": not running)

\* the executor is sized to the gate: ThreadPoolExecutor(max_workers=max_concurrent_jobs)
MaxWorkers_AsCapacity == capacity

\* line 42: ThreadPoolExecutor(max_workers=1)
MaxWorkers == 1

mvars == <<gpu_available, instance, constructed, lock, capacity, semaphore,
           pipeline, model_loaded, queue, running, shutdown, pc, arg, fut, last>>
vars == <<mvars, phase>>

Ops == {"none", "get_instance", "load_model", "warmup", "generate_image", "cleanup"}
Errors == {"NotReady", "ResourceUnavailable", "LoadError", "JobError"}

NoCall == [task |-> 0, op |-> "none", ret |-> "none", fut |-> "none", inst |-> 0]

\* ModelManager.__init__ together with the class attributes
InitManager ==
    /\ gpu_available \in BOOLEAN
    /\ instance = 0
    /\ constructed = 0
    /\ lock = 0
    /\ capacity = 0
    /\ semaphore = 0
    /\ pipeline = FALSE
    /\ model_loaded = FALSE
    /\ queue = <<>>
    /\ running = {}
    /\ shutdown = FALSE
    /\ pc = [t \in Tasks |-> "idle"]
    /\ arg = [t \in Tasks |-> 0]
    /\ fut = [t \in Tasks |-> "none"]
    /\ last = NoCall

\* load_model waits for the load on the event-loop thread (future.result() in
\* place of await): the loop is also blocked while a load is awaited
Blocked_WhileLoading == \E t \in Tasks : pc[t] \in {"c_join", "l_wait"}

\* The event-loop thread is inside executor.shutdown(wait=True)
Blocked == \E t \in Tasks : pc[t] = "c_join"

\* A task that may enter a call on the event loop
CanCall(t) == pc[t] = "idle" /\ ~Blocked

\* A task holding a reference to the manager may call its methods
HasManager == instance # 0

\* shutdown waits for the queue to empty, not for the call a worker is in
Drained_QueueOnly == queue = <<>>

\* The executor has nothing queued and nothing running
Drained == queue = <<>> /\ running = {}

\* executor.submit raises RuntimeError after shutdown()
SubmitRefused == shutdown

\* the call of task t ends: it returns (r is "ok"), or raises the error r
Return(t, o, r) ==
    /\ pc' = [pc EXCEPT ![t] = "idle"]
    /\ last' = [task |-> t, op |-> o, ret |-> r, fut |-> fut[t], inst |-> 0]
    /\ fut' = [fut EXCEPT ![t] = "none"]

\* line 60: return cls._instance
ReturnInstance(t, i) ==
    /\ pc' = [pc EXCEPT ![t] = "idle"]
    /\ last' = [task |-> t, op |-> "get_instance", ret |-> "ok", fut |-> "none", inst |-> i]
    /\ fut' = fut

\* await loop.run_in_executor(self.executor, fn, ...): the work item is submitted
\* and the task suspends on its future
Dispatch(t, k, where) ==
    /\ queue' = Append(queue, [task |-> t, kind |-> k, handle |-> FALSE])
    /\ fut' = [fut EXCEPT ![t] = "pending"]
    /\ pc' = [pc EXCEPT ![t] = where]
    /\ last' = last

\* ------------------------------------------------------------ get_instance
\* line 55: the unlocked check
OuterCheck == instance = 0

\* the check under the lock left out: every caller that got past line 55 constructs
InnerCheck_Missing == TRUE

\* line 57: the check repeated under the lock
InnerCheck == instance = 0

\* the semaphore is created anew from the argument of every call
GetInstance_Resizes(t, m) ==
    /\ CanCall(t)
    /\ IF OuterCheck
       THEN /\ pc' = [pc EXCEPT ![t] = "gi_lock"]
            /\ arg' = [arg EXCEPT ![t] = m]
            /\ UNCHANGED <<fut, last, capacity, semaphore>>
       ELSE /\ ReturnInstance(t, instance)
            /\ capacity' = m
            /\ semaphore' = m
            /\ arg' = arg
    /\ UNCHANGED <<gpu_available, instance, constructed, lock,
                   pipeline, model_loaded, queue, running, shutdown>>

\* line 55: get_instance entered: return the existing instance, or go for the lock
GetInstance(t, m) ==
    /\ CanCall(t)
    /\ IF OuterCheck
       THEN /\ pc' = [pc EXCEPT ![t] = "gi_lock"]
            /\ arg' = [arg EXCEPT ![t] = m]
            /\ UNCHANGED <<fut, last>>
       ELSE /\ ReturnInstance(t, instance)
            /\ arg' = arg
    /\ UNCHANGED <<gpu_available, instance, constructed, lock, capacity, semaphore,
                   pipeline, model_loaded, queue, running, shutdown>>

\* line 56: async with cls._lock, __aenter__
AcquireLock(t) ==
    /\ pc[t] = "gi_lock"
    /\ ~Blocked
    /\ lock = 0
    /\ lock' = t
    /\ pc' = [pc EXCEPT ![t] = "gi_body"]
    /\ UNCHANGED <<gpu_available, instance, constructed, capacity, semaphore, pipeline,
                   model_loaded, queue, running, shutdown, arg, fut, last>>

\* lines 29-42 and 58-59: cls() and the semaphore of the new instance
Construct(m) ==
    /\ constructed' = constructed + 1
    /\ instance' = constructed + 1
    /\ pipeline' = FALSE
    /\ model_loaded' = FALSE
    /\ queue' = <<>>
    /\ running' = {}
    /\ shutdown' = FALSE
    /\ capacity' = m
    /\ semaphore' = m

\* lines 57-60: the locked body, the release of the lock and the return
CreateInstance(t) ==
    /\ pc[t] = "gi_body"
    /\ ~Blocked
    /\ IF InnerCheck
       THEN Construct(arg[t])
       ELSE UNCHANGED <<constructed, instance, pipeline, model_loaded, queue, running,
                        shutdown, capacity, semaphore>>
    /\ lock' = 0
    /\ ReturnInstance(t, instance')
    /\ arg' = [arg EXCEPT ![t] = 0]
    /\ gpu_available' = gpu_available

\* -------------------------------------------------------------- load_model
\* the early return left out: every call loads
AlreadyLoaded_Never == FALSE

\* line 134: if self.model_loaded
AlreadyLoaded == model_loaded

\* the accelerator check left out
NoAccelerator_Unchecked == FALSE

\* line 139: not (torch.cuda.is_available() or torch.backends.mps.is_available())
NoAccelerator == ~gpu_available

\* lines 134-171: up to the await of the executor future
LoadModel(t) ==
    /\ CanCall(t)
    /\ HasManager
    /\ IF AlreadyLoaded
       THEN Return(t, "load_model", "ok") /\ queue' = queue
       ELSE IF NoAccelerator
       THEN Return(t, "load_model", "ResourceUnavailable") /\ queue' = queue
       ELSE IF SubmitRefused
       THEN Return(t, "load_model", "LoadError") /\ queue' = queue
       ELSE Dispatch(t, "load", "l_wait")
    /\ UNCHANGED <<gpu_available, instance, constructed, lock, capacity, semaphore,
                   pipeline, model_loaded, running, shutdown, arg>>

\* the except clause logs the error and does not raise it again
LoadFailed_Swallowed(t) ==
    /\ UNCHANGED <<pipeline, model_loaded>>
    /\ Return(t, "load_model", "ok")

\* model_loaded is set in a finally clause: also when the load raised
LoadFailed_MarksLoaded(t) ==
    /\ pipeline' = pipeline
    /\ model_loaded' = TRUE
    /\ Return(t, "load_model", "LoadError")

\* lines 194-196: the load raised: the error is logged and raised again
LoadFailed(t) ==
    /\ UNCHANGED <<pipeline, model_loaded>>
    /\ Return(t, "load_model", "LoadError")

\* lines 165-196: the future is done; store the handle, or log and re-raise
LoadResume(t) ==
    /\ pc[t] = "l_wait"
    /\ ~Blocked
    /\ fut[t] \in {"ok", "err"}
    /\ IF fut[t] = "ok"
       THEN /\ pipeline' = TRUE
            /\ model_loaded' = TRUE
            /\ Return(t, "load_model", "ok")
       ELSE LoadFailed(t)
    /\ UNCHANGED <<gpu_available, instance, constructed, lock, capacity, semaphore,
                   queue, running, shutdown, arg>>

\* ------------------------------------------------------------------ warmup
\* the readiness check of warmup left out: the inference is dispatched in any state
Warmup_Unchecked(t) ==
    /\ CanCall(t)
    /\ HasManager
    /\ IF SubmitRefused
       THEN Return(t, "warmup", "ok") /\ queue' = queue
       ELSE Dispatch(t, "warmup", "w_wait")
    /\ UNCHANGED <<gpu_available, instance, constructed, lock, capacity, semaphore,
                   pipeline, model_loaded, running, shutdown, arg>>

\* warmup goes through the gate as generate_image does and takes a permit
Warmup_ThroughGate(t) ==
    /\ CanCall(t)
    /\ HasManager
    /\ IF ~model_loaded
       THEN Return(t, "warmup", "NotReady") /\ UNCHANGED <<queue, semaphore>>
       ELSE IF SubmitRefused \/ semaphore = 0
       THEN Return(t, "warmup", "ok") /\ UNCHANGED <<queue, semaphore>>
       ELSE Dispatch(t, "warmup", "w_wait") /\ semaphore' = semaphore - 1
    /\ UNCHANGED <<gpu_available, instance, constructed, lock, capacity,
                   pipeline, model_loaded, running, shutdown, arg>>

\* lines 207-224: up to the await of the executor future; a refused submit is
\* caught by the except clause like any other failure
Warmup(t) ==
    /\ CanCall(t)
    /\ HasManager
    /\ IF ~model_loaded
       THEN Return(t, "warmup", "NotReady") /\ queue' = queue
       ELSE IF SubmitRefused
       THEN Return(t, "warmup", "ok") /\ queue' = queue
       ELSE Dispatch(t, "warmup", "w_wait")
    /\ UNCHANGED <<gpu_available, instance, constructed, lock, capacity, semaphore,
                   pipeline, model_loaded, running, shutdown, arg>>

\* the except clause of warmup raises the error again
WarmupFailed_Raises == "JobError"

\* lines 228-229: how warmup ends when its inference raised
WarmupFailed == "ok"

\* lines 215-229: the future is done; a failure is logged and swallowed
WarmupResume(t) ==
    /\ pc[t] = "w_wait"
    /\ ~Blocked
    /\ fut[t] \in {"ok", "err"}
    /\ Return(t, "warmup", IF fut[t] = "ok" THEN "ok" ELSE WarmupFailed)
    /\ UNCHANGED <<gpu_available, instance, constructed, lock, capacity, semaphore,
                   pipeline, model_loaded, queue, running, shutdown, arg>>

\* ---------------------------------------------------------- generate_image
\* the permit given back a second time (a release() of its own in the handler)
Release_Twice(t) == semaphore' = semaphore + 2

\* the permit given back only when the inference returned an image
Release_OnSuccessOnly(t) ==
    semaphore' = IF fut[t] = "ok" THEN semaphore + 1 ELSE semaphore

\* line 294, __aexit__ of `async with self.semaphore`: release() on every way out
Release(t) == semaphore' = semaphore + 1

\* lines 294-314: the permit is taken and the inference is handed to the executor;
\* a refused submit raises inside the `async with`, which gives the permit back
Admit(t) ==
    IF SubmitRefused
    THEN /\ Return(t, "generate_image", "JobError")
         /\ UNCHANGED <<semaphore, queue>>
    ELSE /\ semaphore' = semaphore - 1
         /\ Dispatch(t, "generate", "g_wait")

\* the readiness check left out
NotReady_Unchecked == FALSE

\* lines 290-291: the readiness check
NotReady == ~model_loaded

\* the gate never closes: a permit is handed out whatever the count
PermitFree_Always == TRUE

\* line 294: the semaphore has a free permit
PermitFree == semaphore > 0

\* lines 290-314: generate_image entered
GenerateImage(t) ==
    /\ CanCall(t)
    /\ HasManager
    /\ IF NotReady
       THEN /\ Return(t, "generate_image", "NotReady")
            /\ UNCHANGED <<semaphore, queue>>
       ELSE IF PermitFree
       THEN Admit(t)
       ELSE /\ pc' = [pc EXCEPT ![t] = "g_sem"]
            /\ UNCHANGED <<semaphore, queue, fut, last>>
    /\ UNCHANGED <<gpu_available, instance, constructed, lock, capacity, pipeline,
                   model_loaded, running, shutdown, arg>>

\* line 294: a waiter of the semaphore is woken and takes the released permit
AcquirePermit(t) ==
    /\ pc[t] = "g_sem"
    /\ ~Blocked
    /\ PermitFree
    /\ Admit(t)
    /\ UNCHANGED <<gpu_available, instance, constructed, lock, capacity, pipeline,
                   model_loaded, running, shutdown, arg>>

\* the except clause treats a failed inference as a broken model and marks the
\* manager as not loaded
GenerateResume_UnloadsOnError(t) ==
    /\ pc[t] = "g_wait"
    /\ ~Blocked
    /\ fut[t] \in {"ok", "err"}
    /\ Release(t)
    /\ Return(t, "generate_image", IF fut[t] = "ok" THEN "ok" ELSE "JobError")
    /\ model_loaded' = (model_loaded /\ fut[t] = "ok")
    /\ UNCHANGED <<gpu_available, instance, constructed, lock, capacity, pipeline,
                   queue, running, shutdown, arg>>

\* lines 305-322: the future is done; return the image or re-raise, permit released
GenerateResume(t) ==
    /\ pc[t] = "g_wait"
    /\ ~Blocked
    /\ fut[t] \in {"ok", "err"}
    /\ Release(t)
    /\ Return(t, "generate_image", IF fut[t] = "ok" THEN "ok" ELSE "JobError")
    /\ UNCHANGED <<gpu_available, instance, constructed, lock, capacity, pipeline,
                   model_loaded, queue, running, shutdown, arg>>

\* ----------------------------------------------------------------- cleanup
\* the executor attribute is dropped after the shutdown, so that a later cleanup
\* fails on it
CleanupResult_FailsOnceShutDown == IF shutdown THEN "CleanupError" ELSE "ok"

\* lines 324-338: cleanup has no raise of its own; del, the assignments and a
\* repeated executor.shutdown() do not raise
CleanupResult == "ok"

\* cleanup drops the handle and leaves model_loaded as it is
Cleanup_KeepsFlag(t) ==
    /\ CanCall(t)
    /\ HasManager
    /\ pipeline' = FALSE
    /\ model_loaded' = model_loaded
    /\ shutdown' = TRUE
    /\ IF Drained
       THEN Return(t, "cleanup", CleanupResult)
       ELSE /\ pc' = [pc EXCEPT ![t] = "c_join"]
            /\ UNCHANGED <<fut, last>>
    /\ UNCHANGED <<gpu_available, instance, constructed, lock, capacity, semaphore,
                   queue, running, arg>>

\* lines 324-338: drop the handle, then executor.shutdown(wait=True)
Cleanup(t) ==
    /\ CanCall(t)
    /\ HasManager
    /\ IF pipeline
       THEN pipeline' = FALSE /\ model_loaded' = FALSE
       ELSE UNCHANGED <<pipeline, model_loaded>>
    /\ shutdown' = TRUE
    /\ IF Drained
       THEN Return(t, "cleanup", CleanupResult)
       ELSE /\ pc' = [pc EXCEPT ![t] = "c_join"]
            /\ UNCHANGED <<fut, last>>
    /\ UNCHANGED <<gpu_available, instance, constructed, lock, capacity, semaphore,
                   queue, running, arg>>

\* line 337: shutdown(wait=True) returns once the worker thread has finished
CleanupJoin(t) ==
    /\ pc[t] = "c_join"
    /\ Drained
    /\ Return(t, "cleanup", "ok")
    /\ UNCHANGED <<gpu_available, instance, constructed, lock, capacity, semaphore,
                   pipeline, model_loaded, queue, running, shutdown, arg>>

\* ------------------------------------------------- executor worker thread
\* the executor starts a thread for every work item it is given
WorkerStart_ThreadPerItem ==
    /\ queue # <<>>
    /\ running' = running \cup {[Head(queue) EXCEPT !.handle = pipeline]}
    /\ queue' = Tail(queue)
    /\ UNCHANGED <<gpu_available, instance, constructed, lock, capacity, semaphore,
                   pipeline, model_loaded, shutdown, pc, arg, fut, last>>

\* a worker thread takes the next work item; an inference reads self.pipeline as
\* it starts (lines 217 and 254)
WorkerStart ==
    /\ Cardinality(running) < MaxWorkers
    /\ queue # <<>>
    /\ running' = running \cup {[Head(queue) EXCEPT !.handle = pipeline]}
    /\ queue' = Tail(queue)
    /\ UNCHANGED <<gpu_available, instance, constructed, lock, capacity, semaphore,
                   pipeline, model_loaded, shutdown, pc, arg, fut, last>>

\* what the blocking call can end with: _load_model_sync returns a pipeline or raises;
\* an inference returns an image or raises, and raises for sure when self.pipeline is None
Outcomes(item) ==
    IF item.kind = "load" THEN {"ok", "err"}
    ELSE IF item.handle THEN {"ok", "err"}
    ELSE {"err"}

\* the blocking call ends and resolves the future of the task that submitted it
WorkerFinish(item, r) ==
    /\ item \in running
    /\ r \in Outcomes(item)
    /\ fut' = IF item.task \in Tasks THEN [fut EXCEPT ![item.task] = r] ELSE fut
    /\ running' = running \ {item}
    /\ UNCHANGED <<gpu_available, instance, constructed, lock, capacity, semaphore,
                   pipeline, model_loaded, queue, shutdown, pc, arg, last>>

\* the number of work items, queued or running, whose future task t waits for
ItemsOfTask(t) ==
    Cardinality({i \in 1..Len(queue) : queue[i].task = t})
        + Cardinality({item \in running : item.task = t})

\* ------------------------------------------------------------ cancellation
\* The caller of generate_image is cancelled (task.cancel(), or the timeout of an
\* asyncio.wait_for around the call) while the call is suspended.  CancelledError
\* is raised at the await; `except Exception` (line 320) does not catch it and the
\* exit of `async with self.semaphore` (line 294) releases the permit.  The
\* cancellation of the asyncio future is passed on to the executor's future: a
\* work item that has not started is cancelled and the worker skips it (it is
\* taken out of the queue here), one that is running goes on with nobody waiting
\* for it (task 0).
NoWaiter == 0

\* the work item of task t at the executor is left without a waiter, or dropped
Abandon(t) ==
    /\ queue' = SelectSeq(queue, LAMBDA item : item.task # t)
    /\ running' = {IF item.task = t THEN [item EXCEPT !.task = NoWaiter] ELSE item :
                      item \in running}

\* the permit is taken and given back by hand, without try/finally: a cancelled
\* call does not give it back
CancelGenerate_KeepsPermit(t) ==
    /\ pc[t] = "g_wait"
    /\ ~Blocked
    /\ semaphore' = semaphore
    /\ Abandon(t)
    /\ Return(t, "generate_image", "Cancelled")
    /\ UNCHANGED <<gpu_available, instance, constructed, lock, capacity, pipeline,
                   model_loaded, shutdown, arg>>

\* lines 294-314: CancelledError at the await of the executor future
CancelGenerate(t) ==
    /\ pc[t] = "g_wait"
    /\ ~Blocked
    /\ Release(t)
    /\ Abandon(t)
    /\ Return(t, "generate_image", "Cancelled")
    /\ UNCHANGED <<gpu_available, instance, constructed, lock, capacity, pipeline,
                   model_loaded, shutdown, arg>>

\* line 294: CancelledError while waiting for a permit: none was taken
CancelAtGate(t) ==
    /\ pc[t] = "g_sem"
    /\ ~Blocked
    /\ Return(t, "generate_image", "Cancelled")
    /\ UNCHANGED <<gpu_available, instance, constructed, lock, capacity, semaphore,
                   pipeline, model_loaded, queue, running, shutdown, arg>>

\* ------------------------------------------------------ the manager alone
\* Callers use the manager directly, in any order (as src/test_async_loading.py does)
Init == InitManager /\ phase = "free"

Next ==
    \/ \E t \in Callers, m \in JobsArg : GetInstance(t, m) /\ UNCHANGED phase
    \/ \E t \in Callers : AcquireLock(t) /\ UNCHANGED phase
    \/ \E t \in Callers : CreateInstance(t) /\ UNCHANGED phase
    \/ \E t \in Callers : LoadModel(t) /\ UNCHANGED phase
    \/ \E t \in Callers : LoadResume(t) /\ UNCHANGED phase
    \/ \E t \in Callers : Warmup(t) /\ UNCHANGED phase
    \/ \E t \in Callers : WarmupResume(t) /\ UNCHANGED phase
    \/ \E t \in Callers : GenerateImage(t) /\ UNCHANGED phase
    \/ \E t \in Callers : AcquirePermit(t) /\ UNCHANGED phase
    \/ \E t \in Callers : GenerateResume(t) /\ UNCHANGED phase
    \/ \E t \in Callers : Cleanup(t) /\ UNCHANGED phase
    \/ \E t \in Callers : CleanupJoin(t) /\ UNCHANGED phase
    \/ WorkerStart /\ UNCHANGED phase
    \/ \E item \in running, r \in {"ok", "err"} : WorkerFinish(item, r) /\ UNCHANGED phase

Spec == Init /\ [][Next]_vars

\* ------------------------------------- the manager with cancelled callers
CancelNext ==
    \/ Next
    \/ \E t \in Callers : CancelGenerate(t) /\ UNCHANGED phase
    \/ \E t \in Callers : CancelAtGate(t) /\ UNCHANGED phase

CancelSpec == Init /\ [][CancelNext]_vars

\* ------------------------------------------------- the service: lifespan
\* src/app/main.py: lifespan() runs as task Main; the requests are the other tasks
Main == 1
Requests == Tasks \ {Main}

\* the last call of lifespan() has ended
MainBack == pc[Main] = "idle" /\ last.task = Main

\* lines 43-45: model_manager = await ModelManager.get_instance(MAX_CONCURRENT_JOBS)
LsGetInstance ==
    /\ phase = "start"
    /\ \E m \in JobsArg : GetInstance(Main, m)
    /\ phase' = "get_instance"

\* lines 48-51: await model_manager.load_model(...)
LsLoadModel ==
    /\ phase = "get_instance"
    /\ MainBack
    /\ LoadModel(Main)
    /\ phase' = "load_model"

\* the except clause of lifespan() logs the error and goes on to the yield
StartupOk_Always == TRUE

\* lines 41-69: the call made last in the try block returned, it did not raise
StartupOk == last.ret = "ok"

\* lines 54-59: WARMUP_ENABLED is set: await model_manager.warmup(...)
LsWarmup ==
    /\ phase = "load_model"
    /\ MainBack
    /\ StartupOk
    /\ Warmup(Main)
    /\ phase' = "warmup"

\* the warmup is started as a background task and the yield does not wait for it
LsYield_WarmupInBackground ==
    /\ phase \in {"load_model", "warmup"}
    /\ phase = "load_model" => (MainBack /\ StartupOk)
    /\ phase' = "serving"
    /\ UNCHANGED mvars

\* lines 54-71: the startup code is through (warmup done, or not enabled): yield
LsYield ==
    /\ phase \in {"load_model", "warmup"}
    /\ MainBack
    /\ StartupOk
    /\ phase' = "serving"
    /\ UNCHANGED mvars

\* lines 67-69: an exception in the startup code is logged and raised again
LsAbort ==
    /\ phase \in {"get_instance", "load_model", "warmup"}
    /\ MainBack
    /\ ~StartupOk
    /\ phase' = "failed"
    /\ UNCHANGED mvars

\* src/app/services/generate_logo_service.py lines 101-103 (and /health, main.py
\* line 184): a request served after the yield asks for the manager
RequestGetInstance(t) ==
    /\ phase = "serving"
    /\ \E m \in JobsArg : GetInstance(t, m)
    /\ phase' = phase

\* src/app/services/generate_logo_service.py lines 110-116: a request served after
\* the yield generates its image
RequestGenerate(t) ==
    /\ phase = "serving"
    /\ GenerateImage(t)
    /\ phase' = phase

\* lines 74-76: shutdown begins: model_manager = await ModelManager.get_instance()
LsShutdown ==
    /\ phase = "serving"
    /\ GetInstance(Main, DefaultMaxJobs)
    /\ phase' = "shutdown"

\* line 77: model_manager.cleanup()
LsCleanup ==
    /\ phase = "shutdown"
    /\ MainBack
    /\ Cleanup(Main)
    /\ phase' = "cleanup"

\* lines 78-80: lifespan() ends
LsStopped ==
    /\ phase = "cleanup"
    /\ MainBack
    /\ phase' = "stopped"
    /\ UNCHANGED mvars

\* line 69: the exception leaves lifespan() and the server process gives up
Running == phase # "failed"

LsInit == InitManager /\ phase = "start"

LsNext ==
    \/ LsGetInstance
    \/ LsLoadModel
    \/ LsWarmup
    \/ LsYield
    \/ LsAbort
    \/ LsShutdown
    \/ LsCleanup
    \/ LsStopped
    \/ \E t \in Requests : RequestGetInstance(t)
    \/ \E t \in Requests : RequestGenerate(t)
    \/ \E t \in Tasks : Running /\ AcquireLock(t) /\ UNCHANGED phase
    \/ \E t \in Tasks : Running /\ CreateInstance(t) /\ UNCHANGED phase
    \/ \E t \in Tasks : Running /\ LoadResume(t) /\ UNCHANGED phase
    \/ \E t \in Tasks : Running /\ WarmupResume(t) /\ UNCHANGED phase
    \/ \E t \in Tasks : Running /\ AcquirePermit(t) /\ UNCHANGED phase
    \/ \E t \in Tasks : Running /\ GenerateResume(t) /\ UNCHANGED phase
    \/ \E t \in Tasks : Running /\ CleanupJoin(t) /\ UNCHANGED phase
    \/ Running /\ WorkerStart /\ UNCHANGED phase
    \/ \E item \in running, r \in {"ok", "err"} :
          Running /\ WorkerFinish(item, r) /\ UNCHANGED phase

LifespanSpec == LsInit /\ [][LsNext]_vars

\* What the schedulers guarantee.  The event loop runs every callback that is
\* ready, so a task whose future is done is resumed; the executor's worker thread
\* takes queued work and every blocking call ends (the inference is assumed to
\* terminate); shutdown(wait=True) returns once the worker is through; and
\* asyncio.Semaphore wakes its waiters first come, first served, so a waiter is not
\* passed over for ever while permits keep being released.
LsFairness ==
    /\ \A t \in Requests : WF_vars(Running /\ GenerateResume(t) /\ UNCHANGED phase)
    /\ \A t \in Requests : SF_vars(Running /\ AcquirePermit(t) /\ UNCHANGED phase)
    /\ WF_vars(Running /\ LoadResume(Main) /\ UNCHANGED phase)
    /\ WF_vars(Running /\ WarmupResume(Main) /\ UNCHANGED phase)
    /\ WF_vars(Running /\ CleanupJoin(Main) /\ UNCHANGED phase)
    /\ WF_vars(Running /\ WorkerStart /\ UNCHANGED phase)
    /\ WF_vars(\E item \in running, r \in {"ok", "err"} :
                  Running /\ WorkerFinish(item, r) /\ UNCHANGED phase)

FairLifespanSpec == LifespanSpec /\ LsFairness

\* ------------------------------------------ the route: generate_logo_endpoint
\* src/app/routes/generate_logo_routes.py lines 94-125: the status of the response
\* to a request whose generate_image call ended with r.  generate_logo() re-raises
\* what the manager raised (a RuntimeError, or the error of the inference); the
\* route answers 400 to ValueError and 500 to every other exception.
StatusOf(r) ==
    IF r = "ok" THEN 200
    ELSE IF r = "ValueError" THEN 400
    ELSE 500

\* the status of the response to the request whose generate_image call ended last
ResponseStatus == StatusOf(last.ret)

\* ------------------------------------------- the lifecycle state, as kept
\* Ready: lines 184 and 290: self.model_loaded is set
Ready == model_loaded

\* Unloaded: lines 31 and 39: no handle and model_loaded not set, as __init__ leaves it
Unloaded == ~model_loaded /\ ~pipeline

\* Loading: lines 165-171: a load_model call waits for the load it dispatched
Loading == \E t \in Tasks : pc[t] = "l_wait"

\* the lifecycle state read off what the manager keeps and the calls in progress;
\* nothing in the manager records a load that failed
Lifecycle ==
    IF Ready THEN "Ready"
    ELSE IF Loading THEN "Loading"
    ELSE "Unloaded"

\* ================================================================ claims
\* generate_image calls that hold a permit: past the acquire, before the release
InGate == {t \in Tasks : pc[t] = "g_wait"}

\* generate_image calls waiting for a permit
AtGate == {t \in Tasks : pc[t] = "g_sem"}

\* permits acquired and not yet released
Held == capacity - semaphore

\* C1: with a gate of capacity M and any number of concurrent generate_image calls,
\* the number of calls that have acquired a permit and not yet released it is
\* between 0 and M in every reachable state, and so is the gate's held count.
C1_GateBound ==
    /\ Cardinality(InGate) \in 0..capacity
    /\ Held \in 0..capacity

\* C1 witness: three concurrent requests on a gate of capacity 2: two hold the
\* permits and the third waits.
C1_Witness ==
    /\ capacity = 2
    /\ Cardinality(InGate) = 2
    /\ AtGate # {}

\* C2: however many callers of get_instance interleave, exactly one ModelManager is
\* constructed and every call returns that instance.
C2_Singleton ==
    /\ constructed <= 1
    /\ instance = constructed
    /\ last.op = "get_instance" => (constructed = 1 /\ last.inst = 1)

\* C2 witness: a get_instance call has returned the instance while another caller,
\* which saw no instance at the unlocked check, is inside the locked section.
C2_Witness ==
    /\ last.op = "get_instance"
    /\ last.inst = 1
    /\ \E t \in Tasks : t # last.task /\ pc[t] = "gi_body"

\* C3: a generate_image call gives its permit back exactly once when it ends, with
\* an image or with an error: a failed inference ends the call with the error and
\* no image, the held count never goes below 0, and it is 0 (so that a permit is
\* free for the next call) whenever no generate_image call is in progress.
C3_PermitBalanced ==
    /\ Held >= 0
    /\ (InGate \cup AtGate = {}) => Held = 0
    /\ (instance # 0 /\ InGate \cup AtGate = {}) => semaphore >= 1
    /\ (last.op = "generate_image" /\ last.fut = "err") => last.ret = "JobError"
    /\ (last.op = "generate_image" /\ last.fut = "ok") => last.ret = "ok"

\* C3 witness: a generate_image call has ended with the error of its inference and
\* no call is in progress.
C3_Witness ==
    /\ last.op = "generate_image"
    /\ last.fut = "err"
    /\ last.ret = "JobError"
    /\ InGate \cup AtGate = {}
    /\ model_loaded

\* C4: a generate_image call entered while the model is not loaded ends at once
\* with the not-ready error: it takes no permit, does not wait for one, and hands
\* nothing to the executor.
C4_NotReadyFastFail ==
    [][\A t \in Tasks :
          (~model_loaded /\ GenerateImage(t)) =>
              /\ pc'[t] = "idle"
              /\ last'.task = t
              /\ last'.op = "generate_image"
              /\ last'.ret = "NotReady"
              /\ UNCHANGED <<semaphore, queue, running, fut>>]_vars

\* C4 witness: a generate_image call has ended with NotReady on a manager that is
\* not loaded, with no permit held.
C4_Witness ==
    /\ last.op = "generate_image"
    /\ last.ret = "NotReady"
    /\ ~model_loaded
    /\ Held = 0


\* C5: with more concurrent requests than permits (3 requests, capacity 2) after a
\* successful load, and every blocking call on the executor ending, every
\* generate_image call eventually ends; a call starts its inference only when a
\* permit is free, a call that waits found every permit taken, and a permit becomes
\* free only by the release of a call that held one: the waiting call starts after
\* an earlier call has released.
C5_AllComplete ==
    /\ \A t \in Requests : (pc[t] \in {"g_sem", "g_wait"}) ~> (pc[t] = "idle")
    /\ [][\A t \in Tasks :
             /\ (pc[t] # "g_wait" /\ pc'[t] = "g_wait") => semaphore > 0
             /\ (pc[t] # "g_sem" /\ pc'[t] = "g_sem") =>
                    (semaphore = 0 /\ Cardinality(InGate) = capacity)
             /\ (instance' = instance /\ semaphore' > semaphore) =>
                    \E u \in Tasks : pc[u] = "g_wait" /\ pc'[u] = "idle"]_vars

\* C5 witness: capacity 2, three requests: one waited at the gate, an earlier one
\* has just ended and released its permit, which is now free for the waiting one.
C5_Witness ==
    /\ capacity = 2
    /\ AtGate # {}
    /\ semaphore > 0
    /\ last.op = "generate_image"
    /\ last.fut = "ok"

\* C6: a load_model call made right after a load_model call that succeeded does
\* not hand the load to the executor again: it returns without error, nothing is
\* queued or started, and the manager is still Ready with its handle.
C6_SecondLoadNoop ==
    [][\A t \in Tasks :
          (last.op = "load_model" /\ last.ret = "ok" /\ LoadModel(t)) =>
              /\ pc'[t] = "idle"
              /\ last'.task = t
              /\ last'.ret = "ok"
              /\ last'.fut = "none"
              /\ UNCHANGED <<queue, running, fut>>
              /\ Ready'
              /\ pipeline']_vars

\* C6 witness: a load_model call has returned without error and without a future
\* (it dispatched nothing) on a manager that is Ready.
C6_Witness ==
    /\ last.op = "load_model"
    /\ last.ret = "ok"
    /\ last.fut = "none"
    /\ Ready
    /\ pipeline

\* C7 as stated: after a load_model call whose dispatched load failed, the manager
\* is in a LoadFailed state: not Ready, and not the Unloaded state of a manager on
\* which no load was ever started.
C7_LoadFailedState ==
    (last.op = "load_model" /\ last.ret = "LoadError" /\ last.fut = "err") =>
        (~Ready /\ ~Unloaded)

\* C7 as amended: when the dispatched load fails, load_model raises the error to
\* its caller and leaves pipeline and model_loaded as they were; no failure is
\* recorded, so a manager that was Unloaded is left Unloaded.
C7_LoadFailureLeavesState ==
    [][\A t \in Tasks :
          (pc[t] = "l_wait" /\ fut[t] = "err" /\ pc'[t] = "idle") =>
              /\ last'.task = t
              /\ last'.op = "load_model"
              /\ last'.ret = "LoadError"
              /\ UNCHANGED <<pipeline, model_loaded>>
              /\ Unloaded => Unloaded']_vars

\* C7 witness: a load_model call has ended with the error of its load and the
\* manager is Unloaded.
C7_Witness ==
    /\ last.op = "load_model"
    /\ last.ret = "LoadError"
    /\ last.fut = "err"
    /\ Unloaded

\* C8: on a host with neither CUDA nor MPS every load_model call ends with the
\* resource-unavailable error, nothing is ever handed to the executor, no handle is
\* stored and the manager stays Unloaded.
C8_NoAccelerator ==
    ~gpu_available =>
        /\ Unloaded
        /\ queue = <<>>
        /\ running = {}
        /\ \A t \in Tasks : fut[t] = "none"
        /\ last.op = "load_model" =>
               (last.ret = "ResourceUnavailable" /\ last.fut = "none")

\* C8 witness: a load_model call has ended with ResourceUnavailable on a host
\* without accelerator.
C8_Witness ==
    /\ ~gpu_available
    /\ last.op = "load_model"
    /\ last.ret = "ResourceUnavailable"

\* C9: lifespan() reaches its yield only after load_model has returned without
\* error: while the service serves, the model is loaded; a request is only ever in
\* progress or answered once the yield was reached; and when a startup call raised,
\* startup has failed with that error and no request was served.
C9_ServeOnlyLoaded ==
    /\ phase \in {"serving", "shutdown"} => (Ready /\ pipeline)
    /\ (\E t \in Requests : pc[t] # "idle" \/ last.task = t) =>
           phase \in {"serving", "shutdown", "cleanup", "stopped"}
    /\ phase = "failed" =>
           /\ last.task = Main
           /\ last.ret \in Errors
           /\ \A t \in Requests : pc[t] = "idle"
    /\ (phase \in {"load_model", "warmup"} /\ MainBack /\ last.ret \in Errors) =>
           (~Ready /\ \A t \in Requests : pc[t] = "idle")

\* C9 witness: load_model raised in startup and startup has failed.
C9_Witness ==
    /\ phase = "failed"
    /\ last.op = "load_model"
    /\ last.ret = "LoadError"

\* C10: a warmup call whose inference raised returns normally to its caller and
\* leaves pipeline and model_loaded as they were: a Ready manager stays Ready with
\* its handle.
C10_WarmupSwallows ==
    [][\A t \in Tasks :
          (pc[t] = "w_wait" /\ fut[t] = "err" /\ pc'[t] = "idle") =>
              /\ last'.task = t
              /\ last'.op = "warmup"
              /\ last'.ret = "ok"
              /\ UNCHANGED <<pipeline, model_loaded>>]_vars

\* C10 witness: a warmup call has returned normally although its inference raised,
\* and the manager is Ready with its handle.
C10_Witness ==
    /\ last.op = "warmup"
    /\ last.fut = "err"
    /\ last.ret = "ok"
    /\ Ready
    /\ pipeline

\* C11: once cleanup has returned, the handle is released, model_loaded is false,
\* and nothing handed to the executor before the call is still queued or running.
C11_CleanupReleases ==
    last.op = "cleanup" =>
        /\ last.ret = "ok"
        /\ ~pipeline
        /\ ~model_loaded
        /\ queue = <<>>
        /\ running = {}
        /\ \A t \in Tasks : fut[t] # "pending"

\* C11 witness: cleanup has returned on a manager that was loaded: a generate_image
\* call dispatched before it is still suspended, and its inference has already ended.
C11_Witness ==
    /\ last.op = "cleanup"
    /\ \E t \in Tasks : pc[t] = "g_wait" /\ fut[t] \in {"ok", "err"}

\* C12: cleanup never raises, on a manager that never loaded as on any other; a
\* cleanup call on an Unloaded manager leaves it Unloaded; and a cleanup call made
\* directly after a cleanup call returns at once and changes nothing in the manager,
\* its gate or its executor.
C12_CleanupIdempotent ==
    [][\A t \in Tasks :
          /\ (pc[t] \in {"idle", "c_join"} /\ last'.task = t /\ last'.op = "cleanup"
                 /\ last' # last) => last'.ret = "ok"
          /\ (Cleanup(t) /\ Unloaded) => Unloaded'
          /\ (Cleanup(t) /\ last.op = "cleanup") =>
                 /\ pc'[t] = "idle"
                 /\ last'.ret = "ok"
                 /\ UNCHANGED <<instance, constructed, lock, capacity, semaphore,
                                pipeline, model_loaded, queue, running, shutdown, fut>>
                 /\ Unloaded']_vars

\* C12 witness: on a host without accelerator, where no load can ever have stored a
\* handle, cleanup has returned without error.
C12_Witness ==
    /\ ~gpu_available
    /\ last.op = "cleanup"
    /\ last.ret = "ok"
    /\ Unloaded
    /\ shutdown

\* C13: after cleanup the manager can be set up again: get_instance then yields a
\* manager whose executor takes work, so that a load_model call on a host with an
\* accelerator is handed to the executor (or finds the model loaded) and can reach
\* Ready.
C13_RecreateAfterCleanup ==
    [][\A t \in Tasks :
          /\ (GetInstance(t, DefaultMaxJobs) /\ pc'[t] = "idle") => ~shutdown'
          /\ (gpu_available /\ LoadModel(t)) =>
                 (pc'[t] = "l_wait" \/ (pc'[t] = "idle" /\ last'.ret = "ok"))]_vars

\* C14: a get_instance call that finds an instance, whatever max_concurrent_jobs
\* it passes and whether it finds the instance at the unlocked check or under the
\* lock, returns that instance and leaves the capacity of the gate and the number
\* of free and held permits as they are.
C14_CapacityFixed ==
    [][\A t \in Tasks :
          (instance # 0 /\ ((\E m \in JobsArg : GetInstance(t, m)) \/ CreateInstance(t))) =>
              /\ pc'[t] = "idle"
              /\ last'.op = "get_instance"
              /\ last'.inst = instance
              /\ UNCHANGED <<instance, constructed, capacity, semaphore>>
              /\ Held' = Held]_vars

\* C14 witness: the instance was constructed with capacity 1; the get_instance call
\* of the shutdown code, which passes the default of 2, has returned it while a
\* request holds the one permit.
C14_Witness ==
    /\ phase = "shutdown"
    /\ last.op = "get_instance"
    /\ last.task = Main
    /\ last.inst = instance
    /\ capacity = 1
    /\ Held = 1

\* C15 as stated: the executor of the instance has as many workers as the
\* max_concurrent_jobs value the instance was constructed with, the gate capacity.
C15_WorkersMatchCapacity ==
    instance # 0 => MaxWorkers = capacity

\* C15 as amended: the executor of the instance has one worker whatever the gate
\* capacity: at most one blocking call executes at a time, and a call dispatched
\* while the worker is busy waits in the executor's queue even when it holds a permit.
C15_SingleWorker ==
    /\ Cardinality(running) <= 1
    /\ Cardinality({t \in InGate : fut[t] = "pending"}) >= 2 => queue # <<>>

\* C15 witness: capacity 2 and two generate_image calls hold the permits: the
\* inference of one executes and that of the other is queued.
C15_Witness ==
    /\ capacity = 2
    /\ Cardinality(InGate) = 2
    /\ Cardinality(running) = 1
    /\ Len(queue) = 1
    /\ \A t \in InGate : fut[t] = "pending"

\* C16: a generate_image call whose inference raised ends with the job error,
\* gives back its permit and leaves handle, model_loaded, capacity and executor as
\* they were; the free permits are always the capacity less the calls in the gate,
\* whatever failed before; and the generate_image call entered next on the Ready
\* manager is admitted and dispatched when fewer calls than the capacity are in the
\* gate, and waits otherwise.
C16_FailureIsolated ==
    [][/\ instance' # 0 => semaphore' = capacity' - Cardinality(InGate)'
       /\ \A t \in Tasks :
              /\ (pc[t] = "g_wait" /\ fut[t] = "err" /\ pc'[t] = "idle") =>
                     /\ last'.ret = "JobError"
                     /\ Held' = Held - 1
                     /\ UNCHANGED <<pipeline, model_loaded, capacity, queue, running,
                                    shutdown>>
              /\ (last.op = "generate_image" /\ last.fut = "err" /\ Ready /\ ~shutdown
                     /\ GenerateImage(t)) =>
                     IF Cardinality(InGate) < capacity
                     THEN /\ pc'[t] = "g_wait"
                          /\ fut'[t] = "pending"
                          /\ Len(queue') = Len(queue) + 1
                     ELSE pc'[t] = "g_sem"]_vars

\* C16 witness: with capacity 1, a generate_image call has ended with the error of
\* its inference, the manager is Ready with its handle, and another call now holds
\* the permit with its inference dispatched.
C16_Witness ==
    /\ capacity = 1
    /\ last.op = "generate_image"
    /\ last.fut = "err"
    /\ last.ret = "JobError"
    /\ Ready
    /\ pipeline
    /\ \E u \in Tasks : u # last.task /\ pc[u] = "g_wait" /\ fut[u] = "pending"

\* C17: handing the load to the executor does not block the event loop: when
\* load_model has dispatched the load and waits for it, the loop is free, and
\* every task that is not in a call can enter one before the load completes.
C17_LoopFreeDuringLoad ==
    [][\A t \in Tasks :
          (LoadModel(t) /\ pc'[t] = "l_wait") =>
              /\ fut'[t] = "pending"
              /\ ~Blocked'
              /\ \A u \in Tasks \ {t} : pc[u] = "idle" => CanCall(u)']_vars

\* C17 witness: two tasks wait for loads that are both still pending: the second
\* entered load_model and dispatched while the first was waiting for its load.
C17_Witness ==
    \E t, u \in Tasks :
        /\ t # u
        /\ pc[t] = "l_wait" /\ fut[t] = "pending"
        /\ pc[u] = "l_wait" /\ fut[u] = "pending"

\* C18 as stated: the lifecycle state changes only from Unloaded to Loading, from
\* Loading to Ready, from Loading to LoadFailed, and to Unloaded by teardown.
C18_FourStateLifecycle ==
    [][Lifecycle' # Lifecycle =>
          \/ <<Lifecycle, Lifecycle'>> \in {<<"Unloaded", "Loading">>,
                                            <<"Loading", "Ready">>,
                                            <<"Loading", "LoadFailed">>}
          \/ (Lifecycle' = "Unloaded" /\ \E t \in Tasks : Cleanup(t))]_vars

\* C18 as amended: model_loaded becomes true, and a handle is stored, only when a
\* load_model call resumes from a load that succeeded; model_loaded becomes false,
\* and the handle is released, only by cleanup, so that Ready is never left by
\* load_model, warmup or generate_image; a failed load is not recorded; and a load
\* is handed to the executor only by a load_model call, never again by the manager
\* on its own.
C18_Lifecycle ==
    [][/\ ((~model_loaded /\ model_loaded') \/ (~pipeline /\ pipeline')) =>
              \E t \in Tasks : pc[t] = "l_wait" /\ fut[t] = "ok" /\ pc'[t] = "idle"
       /\ ((model_loaded /\ ~model_loaded') \/ (pipeline /\ ~pipeline')) =>
              \E t \in Tasks : Cleanup(t)
       /\ (\E t \in Tasks : pc[t] = "l_wait" /\ fut[t] = "err" /\ pc'[t] = "idle") =>
              UNCHANGED <<pipeline, model_loaded, queue, running>>
       /\ (Len(queue') > Len(queue) /\ queue'[Len(queue')].kind = "load") =>
              \E t \in Tasks : pc[t] = "idle" /\ LoadModel(t)]_vars

\* C18 witness: a load_model call has resumed from a load that succeeded and the
\* manager has gone from Unloaded to Ready.
C18_Witness ==
    /\ last.op = "load_model"
    /\ last.ret = "ok"
    /\ last.fut = "ok"
    /\ Ready
    /\ pipeline

\* C19: a warmup call entered while the model is not loaded ends at once with the
\* not-ready error and hands nothing to the executor; and whenever a warmup call
\* ends with an error, it is that error, raised at entry on a manager not loaded.
C19_WarmupNotReady ==
    [][\A t \in Tasks :
          /\ (~model_loaded /\ Warmup(t)) =>
                 /\ pc'[t] = "idle"
                 /\ last'.task = t
                 /\ last'.op = "warmup"
                 /\ last'.ret = "NotReady"
                 /\ UNCHANGED <<queue, running, fut, semaphore>>
          /\ (pc[t] \in {"idle", "w_wait"} /\ pc'[t] = "idle" /\ last'.task = t
                 /\ last'.op = "warmup" /\ last' # last /\ last'.ret # "ok") =>
                 /\ pc[t] = "idle"
                 /\ ~model_loaded
                 /\ last'.ret = "NotReady"
                 /\ last'.fut = "none"]_vars

\* C19 witness: a warmup call has ended with NotReady on a manager that is not
\* loaded and whose executor has nothing queued or running.
C19_Witness ==
    /\ last.op = "warmup"
    /\ last.ret = "NotReady"
    /\ last.fut = "none"
    /\ ~model_loaded
    /\ queue = <<>>
    /\ running = {}

\* the number of work items of the executor, queued or running, that task t submitted
ItemsOf(t) ==
    Cardinality({i \in 1..Len(queue) : queue[i].task = t})
        + Cardinality({item \in running : item.task = t})

\* a worker is executing a work item of task t
OnWorker(t) == \E item \in running : item.task = t

\* C20: no step of a warmup call takes or gives back a permit: entering warmup,
\* the start and the end of its inference on the worker, and its return, leave the free and
\* held permits as they are; and a warmup call on a Ready manager hands exactly one
\* inference to the executor, which is queued or occupies the worker until it ends.
C20_WarmupOutsideGate ==
    /\ \A t \in Tasks :
           pc[t] = "w_wait" =>
               /\ t \notin InGate \cup AtGate
               /\ ItemsOf(t) = (IF fut[t] = "pending" THEN 1 ELSE 0)
               /\ \A item \in running : item.task = t => item.kind = "warmup"
    /\ [][\A t \in Tasks :
             /\ (Warmup(t) \/ WarmupResume(t)) =>
                    UNCHANGED <<semaphore, capacity>> /\ Held' = Held
             /\ (pc[t] = "w_wait" /\ (OnWorker(t)' # OnWorker(t) \/ fut'[t] # fut[t])) =>
                    UNCHANGED <<semaphore, capacity>>
             /\ (Warmup(t) /\ Ready /\ ~shutdown) =>
                    /\ pc'[t] = "w_wait"
                    /\ queue' = Append(queue, [task |-> t, kind |-> "warmup",
                                               handle |-> FALSE])]_vars

\* C20 witness: the inference of a warmup call occupies the worker and no permit
\* is held.
C20_Witness ==
    \E t \in Tasks :
        /\ pc[t] = "w_wait"
        /\ fut[t] = "pending"
        /\ \E item \in running : item.task = t /\ item.kind = "warmup"
        /\ semaphore = capacity

\* the executor holds, queued or running, the inference of a warmup call
WarmupAtExecutor ==
    \/ \E i \in 1..Len(queue) : queue[i].kind = "warmup"
    \/ \E item \in running : item.kind = "warmup"

\* C21: the startup warmup is over before the service serves: while the warmup call
\* of lifespan() is in progress the phase is still the warmup phase and no request
\* is in a call; and once the service serves, no warmup call is in progress and no
\* warmup inference is queued or running at the executor.
C21_WarmupBeforeServing ==
    /\ pc[Main] = "w_wait" =>
           (phase = "warmup" /\ \A t \in Requests : pc[t] = "idle")
    /\ phase \in {"serving", "shutdown", "cleanup", "stopped"} =>
           (pc[Main] # "w_wait" /\ ~WarmupAtExecutor)
    /\ (\E t \in Requests : pc[t] # "idle") => ~WarmupAtExecutor

\* C21 witness: the startup warmup has returned (its inference failed), the service
\* serves, and a request holds a permit with its inference dispatched.
C21_Witness ==
    /\ phase = "serving"
    /\ last.task = Main
    /\ last.op = "warmup"
    /\ last.fut = "err"
    /\ \E t \in Requests : pc[t] = "g_wait"

\* the running work items nobody waits for any more
Abandoned == {item \in running : item.task = NoWaiter}

\* C22 as stated: when the caller of generate_image is cancelled after the dispatch
\* of its job, the job stays at the executor (it runs to completion or failure)
\* and the permit is given back.
C22_JobSurvivesCancel ==
    [][\A t \in Tasks :
          (CancelGenerate(t) /\ fut[t] = "pending") =>
              /\ Len(queue') + Cardinality(running') = Len(queue) + Cardinality(running)
              /\ semaphore' >= semaphore]_vars

\* C22 as amended: when the caller of generate_image is cancelled after the
\* dispatch of its job, the permit is given back at once; an inference that has
\* started goes on at the worker with nobody waiting for it, and when it ends it
\* touches no permit and no future; an inference still queued is dropped and never
\* runs; handle and model_loaded are unchanged.
C22_CancelAfterDispatch ==
    [][/\ \A t \in Tasks :
              CancelGenerate(t) =>
                  /\ last'.ret = "Cancelled"
                  /\ semaphore' = semaphore + 1
                  /\ UNCHANGED <<pipeline, model_loaded, capacity>>
                  /\ OnWorker(t) =>
                         /\ queue' = queue
                         /\ Cardinality(running') = Cardinality(running)
                         /\ Abandoned' # {}
                  /\ (~OnWorker(t) /\ fut[t] = "pending") =>
                         /\ Len(queue') = Len(queue) - 1
                         /\ running' = running
                  /\ ItemsOfTask(t)' = 0
       /\ (Abandoned # {} /\ Abandoned' = {}) =>
              (Cardinality(running') < Cardinality(running)
                 /\ UNCHANGED <<semaphore, fut, pc, last>>)]_vars

\* C22 witness: a generate_image call was cancelled while its inference was
\* running: the inference is still at the worker with nobody waiting, and every
\* permit is free.
C22_Witness ==
    /\ last.op = "generate_image"
    /\ last.ret = "Cancelled"
    /\ last.fut = "pending"
    /\ Abandoned # {}
    /\ semaphore = capacity

C24_OneBlockingCall ==
    /\ \A a, b \in running : a = b
    /\ \A t \in Tasks :
           (fut[t] = "pending" /\ ~OnWorker(t)) =>
               \E i \in 1..Len(queue) : queue[i].task = t

\* C24 witness: with capacity 2, an inference of generate_image executes while a
\* warmup inference and nothing else waits in the queue of the executor.
C24_Witness ==
    /\ capacity = 2
    /\ \E item \in running : item.kind = "generate"
    /\ Len(queue) = 1
    /\ queue[1].kind = "warmup"

\* C25: no inference, of generate_image or of warmup, is executing on a handle
\* while the manager has released its handle (pipeline is None).
C25_NoInferenceWithoutHandle ==
    \A item \in running :
        (item.kind \in {"generate", "warmup"} /\ item.handle) => pipeline

\* C26: once cleanup has returned the manager is Unloaded, without a handle, and
\* stays so: a load_model call that was waiting for its load when cleanup ran
\* stores no handle and does not set model_loaded afterwards (and no load can be
\* dispatched after the cleanup, the executor being shut down).
C26_StaysUnloaded ==
    (shutdown /\ ~Blocked) => Unloaded

\* the loads handed to the executor and not yet ended
LoadsAtExecutor ==
    Cardinality({i \in 1..Len(queue) : queue[i].kind = "load"})
        + Cardinality({item \in running : item.kind = "load"})

\* C27: load_model calls that overlap hand the load to the executor at most once:
\* the executor never holds two loads.
C27_SingleLoadDispatch ==
    LoadsAtExecutor <= 1

\* the inferences generate_image has handed to the executor and that have not ended
JobsAtExecutor ==
    Cardinality({i \in 1..Len(queue) : queue[i].kind = "generate"})
        + Cardinality({item \in running : item.kind = "generate"})

\* C28: the inferences of generate_image that are queued or running at the
\* executor are never more than the capacity of the gate, also when callers are
\* cancelled while they wait for their result.
C28_JobsBoundedByGate ==
    instance # 0 => JobsAtExecutor <= capacity

\* C29: in every reachable state, whatever the interleaving of load_model, warmup,
\* generate_image and cleanup, model_loaded is true only while a handle is stored.
C29_LoadedHasHandle ==
    model_loaded => pipeline

\* C29 witness: a load that was in flight when cleanup ran has resumed after it:
\* the executor is shut down, model_loaded is true and the handle is stored.
C29_Witness ==
    /\ shutdown
    /\ last.op = "load_model"
    /\ last.fut = "ok"
    /\ model_loaded
    /\ pipeline

TypeOK ==
    /\ gpu_available \in BOOLEAN
    /\ instance \in 0..NTasks
    /\ constructed \in 0..NTasks
    /\ lock \in 0..NTasks
    /\ capacity \in 0..MaxJobs
    /\ semaphore \in 0..MaxJobs
    /\ pipeline \in BOOLEAN
    /\ model_loaded \in BOOLEAN
    /\ shutdown \in BOOLEAN
    /\ last.op \in Ops
    /\ \A t \in Tasks : fut[t] \in {"none", "pending", "ok", "err"}
====
